---- MODULE Spec2Model ----
(***************************************************************************)
(* A model of package golden (golden.go, build.go): the resolution of a    *)
(* golden file's relative path against the GOPATH roots, and Compare's     *)
(* read-and-diff / write-and-overwrite protocol.                           *)
(*                                                                         *)
(* Go strings (paths, GOPATH, file contents) are sequences of one-         *)
(* character strings, so that splitting, joining, cleaning and sorting are *)
(* computed character by character as the library routines compute them.   *)
(***************************************************************************)
EXTENDS Naturals, Sequences, FiniteSets

VARIABLES
  GOPATH,        \* build.Default.GOPATH, a string
  updateGolden,  \* *updateGolden, the -update_golden flag
  fs,            \* the filesystem: full path -> node
  halted,        \* the process has exited through log.Fatal
  last,          \* the most recent call and what it returned
  lastWrite,     \* the most recent Compare that wrote the golden file
  restoreFuncs,  \* the closures enableUpdateGoldenForTest has returned
  environ        \* the GOPATH of the environment the test binary runs in

vars == <<GOPATH, updateGolden, fs, halted, last, lastWrite, restoreFuncs, environ>>

----------------------------------------------------------------------------
(* Bounds of the model. *)

\* The longest root list GOPATH holds.
MaxRoots == 2

\* The most restore functions a process holds at a time.
MaxOverrides == 1

----------------------------------------------------------------------------
(* Strings. *)

\* The byte value of a character; sort.Strings compares strings bytewise.
Code(c) ==
  CASE c = "\n" -> 10
    [] c = "." -> 46
    [] c = "/" -> 47
    [] c = ":" -> 58
    [] c = "a" -> 97
    [] c = "b" -> 98
    [] c = "c" -> 99
    [] c = "d" -> 100
    [] c = "e" -> 101
    [] c = "f" -> 102
    [] c = "g" -> 103
    [] c = "l" -> 108
    [] c = "n" -> 110
    [] c = "o" -> 111
    [] c = "r" -> 114
    [] c = "s" -> 115
    [] c = "t" -> 116
    [] c = "u" -> 117
    [] c = "x" -> 120

\* s < t for Go strings: bytewise lexicographic order.
RECURSIVE StrLess(_, _)
StrLess(s, t) ==
  IF Len(t) = 0 THEN FALSE
  ELSE IF Len(s) = 0 THEN TRUE
  ELSE IF Code(Head(s)) # Code(Head(t)) THEN Code(Head(s)) < Code(Head(t))
  ELSE StrLess(Tail(s), Tail(t))

\* The positions of character c in s.
IndexesOf(s, c) == {i \in 1..Len(s) : s[i] = c}

SetMin(S) == CHOOSE i \in S : \A j \in S : i <= j
SetMax(S) == CHOOSE i \in S : \A j \in S : j <= i

\* strings.Split(s, sep) for a one-character separator.
RECURSIVE Split(_, _)
Split(s, sep) ==
  IF IndexesOf(s, sep) = {} THEN <<s>>
  ELSE LET i == SetMin(IndexesOf(s, sep))
       IN <<SubSeq(s, 1, i - 1)>> \o Split(SubSeq(s, i + 1, Len(s)), sep)

\* filepath.SplitList: the empty string is the empty list, not <<"">>.
SplitList(path) == IF path = <<>> THEN <<>> ELSE Split(path, ":")

\* The roots of a list joined by the list separator (how GOPATH is written).
RECURSIVE JoinList(_)
JoinList(l) ==
  IF Len(l) = 0 THEN <<>>
  ELSE IF Len(l) = 1 THEN l[1]
  ELSE l[1] \o <<":">> \o JoinList(Tail(l))

\* path.Clean on paths without "." and ".." elements: repeated slashes
\* collapse, a trailing slash goes, and the empty path is ".".
RECURSIVE Squeeze(_)
Squeeze(s) ==
  IF Len(s) <= 1 THEN s
  ELSE IF s[1] = "/" /\ s[2] = "/" THEN Squeeze(Tail(s))
  ELSE <<s[1]>> \o Squeeze(Tail(s))

Clean(s) ==
  LET q == Squeeze(s)
  IN IF q = <<>> THEN <<".">>
     ELSE IF Len(q) > 1 /\ q[Len(q)] = "/" THEN SubSeq(q, 1, Len(q) - 1)
     ELSE q

\* path.Join: the non-empty elements joined by slashes, then cleaned.
RECURSIVE JoinElems(_)
JoinElems(elems) ==
  IF Len(elems) = 0 THEN <<>>
  ELSE IF Head(elems) = <<>> THEN JoinElems(Tail(elems))
  ELSE LET rest == JoinElems(Tail(elems))
       IN IF rest = <<>> THEN Head(elems) ELSE Head(elems) \o <<"/">> \o rest

Join(elems) == IF JoinElems(elems) = <<>> THEN <<>> ELSE Clean(JoinElems(elems))

\* filepath.Dir: everything up to the last slash, cleaned.
Dir(p) ==
  IF IndexesOf(p, "/") = {} THEN <<".">>
  ELSE Clean(SubSeq(p, 1, SetMax(IndexesOf(p, "/"))))

\* strings.TrimSuffix.
TrimSuffix(s, suffix) ==
  IF Len(s) >= Len(suffix) /\ SubSeq(s, Len(s) - Len(suffix) + 1, Len(s)) = suffix
  THEN SubSeq(s, 1, Len(s) - Len(suffix))
  ELSE s

Src == <<"s", "r", "c">>
DotGolden == <<".", "g", "o", "l", "d", "e", "n">>
DotActual == <<".", "a", "c", "t", "u", "a", "l">>

----------------------------------------------------------------------------
(* The inputs the model draws from. *)

\* Entries of GOPATH. "a" and "a/" are two entries naming one directory.
RootNames == { <<"a">>, <<"a", "/">>, <<"b">> }

\* Values of GOPATH: lists of up to MaxRoots pairwise different entries.
RootLists ==
  { l \in UNION { [1..n -> RootNames] : n \in 0..MaxRoots } :
      \A i, j \in DOMAIN l : i # j => l[i] # l[j] }

\* Relative paths of golden files, with and without the .golden suffix.
FirstPath == <<"d", "/", "f">> \o DotGolden
SecondPath == <<"d", "/", "g">>
LogicalPaths == { FirstPath, SecondPath }

\* The temporary directories given to enableUpdateGoldenForTest.
TmpDirs == { <<"b">> }

\* File contents and actual values; the last two differ in a final newline.
Texts == { <<"x">>, <<"x", "\n">> }

----------------------------------------------------------------------------
(* The filesystem, as os.Stat, ioutil.ReadFile and ioutil.WriteFile see it. *)

Absent == [kind |-> "absent", data |-> <<>>]
DirNode == [kind |-> "dir", data |-> <<>>]
FileNode(data) == [kind |-> "file", data |-> data]

\* path.Join(p, "src", relPath), tabulated over the roots and relative paths
\* of the model so that it is computed once and not at every call.
JoinTable == [p \in RootNames, rel \in LogicalPaths |-> Join(<<p, Src, rel>>)]

\* The candidate of root p for relPath.
Candidate(p, relPath) == JoinTable[p, relPath]

\* The paths whose state the model tracks: every candidate and its directory.
\* The directories above them (the roots and their src) exist throughout.
FilePaths == { Candidate(p, rel) : p \in RootNames, rel \in LogicalPaths }
FsPaths == FilePaths \cup { Dir(f) : f \in FilePaths }

\* filepath.Dir, tabulated over the tracked paths.
DirTable == [p \in FsPaths |-> Dir(p)]
DirOf(p) == DirTable[p]

\* A tree: only a directory has entries.
WellFormed(f) ==
  \A p \in DOMAIN f :
    (f[p].kind # "absent" /\ DirOf(p) \in DOMAIN f) => f[DirOf(p)].kind = "dir"

\* The trees a run starts from. The golden file of the first logical path
\* takes every shape (missing, a directory, a file of either text), and so
\* does each directory (missing, a directory, a regular file); the golden
\* file of the second path is missing or a file.
InitialFilesystems ==
  { f \in [FsPaths -> {Absent, DirNode} \cup { FileNode(t) : t \in Texts }] :
      /\ WellFormed(f)
      /\ \A p \in FsPaths \ FilePaths : f[p].kind = "file" => f[p].data = <<"x">>
      /\ \A r \in RootNames :
           f[Candidate(r, SecondPath)] \in {Absent, FileNode(<<"x", "\n">>)} }

\* os.Stat(name): "nil", or the errno of the failure. A path below a regular
\* file is ENOTDIR, which os.IsNotExist does not count as "does not exist".
RECURSIVE Stat(_)
Stat(name) ==
  IF name \notin DOMAIN fs THEN "nil"
  ELSE LET up == Stat(DirOf(name))
       IN IF up # "nil" THEN up
          ELSE IF DirOf(name) \in DOMAIN fs /\ fs[DirOf(name)].kind = "file" THEN "ENOTDIR"
          ELSE IF fs[name].kind = "absent" THEN "ENOENT"
          ELSE "nil"

IsNotExist(errno) == errno = "ENOENT"

\* ioutil.ReadFile(name): the error and the contents.
ReadFile(name) ==
  IF Stat(name) # "nil" THEN [err |-> Stat(name), data |-> <<>>]
  ELSE IF fs[name].kind = "dir" THEN [err |-> "EISDIR", data |-> <<>>]
  ELSE [err |-> "nil", data |-> fs[name].data]

\* ioutil.WriteFile(name, data, 0660): open with O_WRONLY|O_CREATE|O_TRUNC
\* creates the file but none of its directories, and cannot open a directory.
WriteFileErr(name) ==
  IF Stat(DirOf(name)) # "nil" THEN Stat(DirOf(name))
  ELSE IF DirOf(name) \in DOMAIN fs /\ fs[DirOf(name)].kind = "file" THEN "ENOTDIR"
  ELSE IF fs[name].kind = "dir" THEN "EISDIR"
  ELSE "nil"

\* WriteFile that ends the data with a newline when it has none.
WriteFile_NewlineTerminated(name, data) ==
  IF WriteFileErr(name) # "nil" THEN fs
  ELSE IF data # <<>> /\ data[Len(data)] = "\n"
    THEN [fs EXCEPT ![name] = FileNode(data)]
  ELSE [fs EXCEPT ![name] = FileNode(data \o <<"\n">>)]

\* WriteFile that opens with O_APPEND instead of O_TRUNC.
WriteFile_Append(name, data) ==
  IF WriteFileErr(name) # "nil" THEN fs
  ELSE [fs EXCEPT ![name] = FileNode(fs[name].data \o data)]

WriteFile(name, data) ==
  IF WriteFileErr(name) # "nil" THEN fs
  ELSE [fs EXCEPT ![name] = FileNode(data)]

----------------------------------------------------------------------------
(* build.go: the resolution of a relative path. *)

\* An error value: what fmt.Errorf was given, or the errno and path of a
\* failed system call. NoError is nil.
NoError == [kind |-> "nil", relPath |-> <<>>, paths |-> <<>>]
Errorf(kind, relPath, paths) == [kind |-> kind, relPath |-> relPath, paths |-> paths]
\* The messages of getFullPathForWrite's errors.
MultipleFiles == "there are multiple files in the GOPATH with the same relative path"
MultipleDirs == "there are multiple suitable directories in the GOPATH"
NoneExist == "none of these directories in the GOPATH exist"

PathError(errno, name) == [kind |-> errno, relPath |-> <<>>, paths |-> <<name>>]

\* sortedKeys with the comparison reversed: the keys in descending order.
RECURSIVE sortedKeys_Descending(_)
sortedKeys_Descending(m) ==
  IF m = {} THEN <<>>
  ELSE LET k == CHOOSE x \in m : \A y \in m \ {x} : StrLess(y, x)
       IN <<k>> \o sortedKeys_Descending(m \ {k})

\* sortedKeys(m): the keys of the map in ascending order.
RECURSIVE sortedKeys(_)
sortedKeys(m) ==
  IF m = {} THEN <<>>
  ELSE LET k == CHOOSE x \in m : \A y \in m \ {x} : StrLess(x, y)
       IN <<k>> \o sortedKeys(m \ {k})

\* getFullPathForRead without the return inside the loop: the last root whose
\* candidate exists wins.
getFullPathForRead_LastMatch(relPath) ==
  LET goPaths == SplitList(GOPATH)
      fullPath(i) == Candidate(goPaths[i], relPath)
      found == { i \in 1..Len(goPaths) : Stat(fullPath(i)) = "nil" }
      err == Stat(fullPath(Len(goPaths)))
  IN IF Len(goPaths) = 0
       THEN [path |-> <<>>, err |-> Errorf("GOPATH is empty", <<>>, <<>>)]
     ELSE IF found # {}
       THEN [path |-> fullPath(SetMax(found)), err |-> NoError]
     ELSE IF IsNotExist(err)
       THEN [path |-> <<>>, err |-> Errorf("file not found in GOPATH", relPath, <<>>)]
     ELSE [path |-> <<>>, err |-> PathError(err, fullPath(Len(goPaths)))]

\* getFullPathForRead without the os.IsNotExist test: every failure is
\* reported as "file not found".
getFullPathForRead_NotFoundOnly(relPath) ==
  LET goPaths == SplitList(GOPATH)
      fullPath(i) == Candidate(goPaths[i], relPath)
      found == { i \in 1..Len(goPaths) : Stat(fullPath(i)) = "nil" }
  IN IF Len(goPaths) = 0
       THEN [path |-> <<>>, err |-> Errorf("GOPATH is empty", <<>>, <<>>)]
     ELSE IF found # {}
       THEN [path |-> fullPath(SetMin(found)), err |-> NoError]
     ELSE [path |-> <<>>, err |-> Errorf("file not found in GOPATH", relPath, <<>>)]

getFullPathForRead(relPath) ==
  LET goPaths == SplitList(GOPATH)
      fullPath(i) == Candidate(goPaths[i], relPath)
      found == { i \in 1..Len(goPaths) : Stat(fullPath(i)) = "nil" }
      err == Stat(fullPath(Len(goPaths)))
  IN IF Len(goPaths) = 0
       THEN [path |-> <<>>, err |-> Errorf("GOPATH is empty", <<>>, <<>>)]
     ELSE IF found # {}
       THEN [path |-> fullPath(SetMin(found)), err |-> NoError]
     ELSE IF IsNotExist(err)
       THEN [path |-> <<>>, err |-> Errorf("file not found in GOPATH", relPath, <<>>)]
     ELSE [path |-> <<>>, err |-> PathError(err, fullPath(Len(goPaths)))]

\* The three maps getFullPathForWrite fills in its loop over the roots. A map keyed by path holds a path once, however many roots
\* lead to it.
existingFiles(relPath) ==
  LET goPaths == SplitList(GOPATH)
  IN { Candidate(goPaths[i], relPath) :
         i \in { j \in 1..Len(goPaths) : Stat(Candidate(goPaths[j], relPath)) = "nil" } }

possibleDirectories(relPath) ==
  LET goPaths == SplitList(GOPATH)
  IN { DirOf(Candidate(goPaths[i], relPath)) : i \in 1..Len(goPaths) }

\* filesWithExistingDir without the os.Stat of the directory: every candidate.
filesWithExistingDir_Unchecked(relPath) ==
  LET goPaths == SplitList(GOPATH)
  IN { Candidate(goPaths[i], relPath) : i \in 1..Len(goPaths) }

filesWithExistingDir(relPath) ==
  LET goPaths == SplitList(GOPATH)
  IN { Candidate(goPaths[i], relPath) :
         i \in { j \in 1..Len(goPaths) :
                   Stat(DirOf(Candidate(goPaths[j], relPath))) = "nil" } }

\* getFullPathForWrite without the single-root shortcut.
getFullPathForWrite_General(relPath) ==
  LET goPaths == SplitList(GOPATH)
  IN IF Len(goPaths) = 0
       THEN [path |-> <<>>, err |-> Errorf("GOPATH is empty", <<>>, <<>>)]
     ELSE IF Cardinality(existingFiles(relPath)) > 1
       THEN [path |-> <<>>,
             err |-> Errorf(MultipleFiles,
                            relPath, sortedKeys(existingFiles(relPath)))]
     ELSE IF Cardinality(existingFiles(relPath)) = 1
       THEN [path |-> CHOOSE f \in existingFiles(relPath) : TRUE, err |-> NoError]
     ELSE IF Cardinality(filesWithExistingDir(relPath)) > 1
       THEN [path |-> <<>>,
             err |-> Errorf(MultipleDirs,
                            <<>>, sortedKeys(filesWithExistingDir(relPath)))]
     ELSE IF Cardinality(filesWithExistingDir(relPath)) = 1
       THEN [path |-> CHOOSE f \in filesWithExistingDir(relPath) : TRUE, err |-> NoError]
     ELSE [path |-> <<>>,
           err |-> Errorf(NoneExist,
                          <<>>, sortedKeys(possibleDirectories(relPath)))]

\* getFullPathForWrite with the directories consulted before the files.
getFullPathForWrite_DirsFirst(relPath) ==
  LET goPaths == SplitList(GOPATH)
  IN IF Len(goPaths) = 0
       THEN [path |-> <<>>, err |-> Errorf("GOPATH is empty", <<>>, <<>>)]
     ELSE IF Len(goPaths) = 1
       THEN [path |-> Candidate(goPaths[1], relPath), err |-> NoError]
     ELSE IF Cardinality(filesWithExistingDir(relPath)) > 1
       THEN [path |-> <<>>,
             err |-> Errorf(MultipleDirs,
                            <<>>, sortedKeys(filesWithExistingDir(relPath)))]
     ELSE IF Cardinality(filesWithExistingDir(relPath)) = 1
       THEN [path |-> CHOOSE f \in filesWithExistingDir(relPath) : TRUE, err |-> NoError]
     ELSE IF Cardinality(existingFiles(relPath)) > 1
       THEN [path |-> <<>>,
             err |-> Errorf(MultipleFiles,
                            relPath, sortedKeys(existingFiles(relPath)))]
     ELSE IF Cardinality(existingFiles(relPath)) = 1
       THEN [path |-> CHOOSE f \in existingFiles(relPath) : TRUE, err |-> NoError]
     ELSE [path |-> <<>>,
           err |-> Errorf(NoneExist,
                          <<>>, sortedKeys(possibleDirectories(relPath)))]

getFullPathForWrite(relPath) ==
  LET goPaths == SplitList(GOPATH)
  IN IF Len(goPaths) = 0
       THEN [path |-> <<>>, err |-> Errorf("GOPATH is empty", <<>>, <<>>)]
     ELSE IF Len(goPaths) = 1
       THEN [path |-> Candidate(goPaths[1], relPath), err |-> NoError]
     ELSE IF Cardinality(existingFiles(relPath)) > 1
       THEN [path |-> <<>>,
             err |-> Errorf(MultipleFiles,
                            relPath, sortedKeys(existingFiles(relPath)))]
     ELSE IF Cardinality(existingFiles(relPath)) = 1
       THEN [path |-> CHOOSE f \in existingFiles(relPath) : TRUE, err |-> NoError]
     ELSE IF Cardinality(filesWithExistingDir(relPath)) > 1
       THEN [path |-> <<>>,
             err |-> Errorf(MultipleDirs,
                            <<>>, sortedKeys(filesWithExistingDir(relPath)))]
     ELSE IF Cardinality(filesWithExistingDir(relPath)) = 1
       THEN [path |-> CHOOSE f \in filesWithExistingDir(relPath) : TRUE, err |-> NoError]
     ELSE [path |-> <<>>,
           err |-> Errorf(NoneExist,
                          <<>>, sortedKeys(possibleDirectories(relPath)))]

shouldUpdateGolden == updateGolden

formatUpdateCommand == "go test -update_golden"

----------------------------------------------------------------------------
(* golden.go: Compare. *)

\* The empty string Compare returns on a match.
Match == <<>>

\* In the record of a call that ended in log.Fatal: no value was returned.
Nothing == <<"no value returned">>

\* The difflib.UnifiedDiff handed to difflib.GetUnifiedDiffString; the diff
\* library is outside the package, and its output stands for itself.
UnifiedDiff(expected, actual, goldenFile) ==
  [A |-> expected, FromFile |-> goldenFile, B |-> actual,
   ToFile |-> TrimSuffix(goldenFile, DotGolden) \o DotActual, Context |-> 3]

\* The report: the instruction line, then the diff.
Report(expected, actual, goldenFile) ==
  << <<"Actual data differs from golden data; run ", formatUpdateCommand, " to update">>,
     UnifiedDiff(expected, actual, goldenFile) >>

\* CompareResult that ignores a final newline on either side.
CompareResult_TrimNewline(expected, actual, goldenFile) ==
  IF TrimSuffix(expected, <<"\n">>) = TrimSuffix(actual, <<"\n">>) THEN Match
  ELSE Report(expected, actual, goldenFile)

\* The comparison proper: "" when the golden data equals actual, byte for
\* byte, and the report otherwise. GetUnifiedDiffString writes the diff to a
\* buffer in memory; the error it could pass on from a writer does not arise.
CompareResult(expected, actual, goldenFile) ==
  IF expected = actual THEN Match ELSE Report(expected, actual, goldenFile)

\* What a call left behind: its arguments, the configuration it ran under, the
\* path it resolved, and either the value it returned or the fatal message.
Call(op, actual, relPath, fullPath, err, outcome, fatal, ret) ==
  [op |-> op, update |-> updateGolden, GOPATH |-> GOPATH, actual |-> actual,
   relPath |-> relPath, fullPath |-> fullPath, err |-> err, outcome |-> outcome,
   fatal |-> fatal, ret |-> ret]

NoCall == [op |-> "none", update |-> FALSE, GOPATH |-> <<>>, actual |-> <<>>,
           relPath |-> <<>>, fullPath |-> <<>>, err |-> NoError, outcome |-> "none",
           fatal |-> "", ret |-> Nothing]

\* Compare with the flag set: resolve for writing, overwrite, return "".
CompareWrite(actual, goldenFile) ==
  LET r == getFullPathForWrite(goldenFile)
      werr == WriteFileErr(r.path)
  IN IF r.err # NoError
       THEN /\ last' = Call("Compare", actual, goldenFile, <<>>, r.err, "fatal",
                            "Error while getting path for writes", Nothing)
            /\ halted' = TRUE
            /\ UNCHANGED <<fs, lastWrite>>
     ELSE IF werr # "nil"
       THEN /\ last' = Call("Compare", actual, goldenFile, r.path,
                            PathError(werr, r.path), "fatal", "WriteFile", Nothing)
            /\ halted' = TRUE
            /\ UNCHANGED <<fs, lastWrite>>
     ELSE /\ fs' = WriteFile(r.path, actual)
          /\ last' = Call("Compare", actual, goldenFile, r.path, NoError, "returned",
                          "", Match)
          /\ lastWrite' = last'
          /\ UNCHANGED halted

\* CompareRead that treats a golden file it cannot find or read as empty
\* golden data instead of calling log.Fatalf.
CompareRead_FoldErrors(actual, goldenFile) ==
  LET r == getFullPathForRead(goldenFile)
      f == ReadFile(r.path)
      expected == IF r.err # NoError \/ f.err # "nil" THEN <<>> ELSE f.data
  IN /\ UNCHANGED <<fs, lastWrite, halted>>
     /\ last' = Call("Compare", actual, goldenFile, r.path, NoError, "returned", "",
                     CompareResult(expected, actual, goldenFile))

\* Compare with the flag clear: resolve for reading, read, compare, report.
CompareRead(actual, goldenFile) ==
  LET r == getFullPathForRead(goldenFile)
      f == ReadFile(r.path)
  IN /\ UNCHANGED <<fs, lastWrite>>
     /\ IF r.err # NoError
          THEN /\ last' = Call("Compare", actual, goldenFile, <<>>, r.err, "fatal",
                               "Error while getting path for reads", Nothing)
               /\ halted' = TRUE
        ELSE IF f.err # "nil"
          THEN /\ last' = Call("Compare", actual, goldenFile, r.path,
                               PathError(f.err, r.path), "fatal",
                               "Error while reading golden file", Nothing)
               /\ halted' = TRUE
        ELSE /\ last' = Call("Compare", actual, goldenFile, r.path, NoError, "returned",
                             "", CompareResult(f.data, actual, goldenFile))
             /\ UNCHANGED halted

Compare(actual, goldenFile) ==
  /\ ~halted
  /\ IF shouldUpdateGolden THEN CompareWrite(actual, goldenFile)
                           ELSE CompareRead(actual, goldenFile)
  /\ UNCHANGED <<GOPATH, updateGolden, restoreFuncs, environ>>

\* A direct call of getFullPathForRead, as the package's own tests make.
CallGetFullPathForRead(relPath) ==
  /\ ~halted
  /\ LET r == getFullPathForRead(relPath)
     IN last' = Call("getFullPathForRead", <<>>, relPath, r.path, r.err, "returned",
                     "", Nothing)
  /\ UNCHANGED <<GOPATH, updateGolden, fs, halted, lastWrite, restoreFuncs, environ>>

\* A direct call of getFullPathForWrite.
CallGetFullPathForWrite(relPath) ==
  /\ ~halted
  /\ LET r == getFullPathForWrite(relPath)
     IN last' = Call("getFullPathForWrite", <<>>, relPath, r.path, r.err, "returned",
                     "", Nothing)
  /\ UNCHANGED <<GOPATH, updateGolden, fs, halted, lastWrite, restoreFuncs, environ>>

\* The sequence q without its i-th element.
Without(q, i) == SubSeq(q, 1, i - 1) \o SubSeq(q, i + 1, Len(q))

\* enableUpdateGoldenForTest(tmpdir): save GOPATH and the flag in a closure,
\* point GOPATH at tmpdir and set the flag.
enableUpdateGoldenForTest(tmpdir) ==
  /\ ~halted
  /\ Len(restoreFuncs) < MaxOverrides
  /\ restoreFuncs' = Append(restoreFuncs,
                            [originalGoPath |-> GOPATH,
                             originalUpdateGolden |-> updateGolden])
  /\ GOPATH' = tmpdir
  /\ updateGolden' = TRUE
  /\ last' = Call("enableUpdateGoldenForTest", <<>>, <<>>, <<>>, NoError, "returned",
                  "", Nothing)
  /\ UNCHANGED <<fs, halted, lastWrite, environ>>

\* restoreFunc that clears the flag instead of putting back the saved value.
restoreFunc_ClearsFlag(i) ==
  /\ ~halted
  /\ i \in DOMAIN restoreFuncs
  /\ GOPATH' = restoreFuncs[i].originalGoPath
  /\ updateGolden' = FALSE
  /\ last' = Call("restoreFunc", <<>>, <<>>, <<>>, NoError, "returned", "", Nothing)
  /\ restoreFuncs' = Without(restoreFuncs, i)
  /\ UNCHANGED <<fs, halted, lastWrite, environ>>

\* A call of the i-th restore function the process holds, in any order: it
\* puts back what its closure saved. The caller calls each once (a defer).
restoreFunc(i) ==
  /\ ~halted
  /\ i \in DOMAIN restoreFuncs
  /\ GOPATH' = restoreFuncs[i].originalGoPath
  /\ updateGolden' = restoreFuncs[i].originalUpdateGolden
  /\ last' = Call("restoreFunc", <<>>, <<>>, <<>>, NoError, "returned", "", Nothing)
  /\ restoreFuncs' = Without(restoreFuncs, i)
  /\ UNCHANGED <<fs, halted, lastWrite, environ>>

\* A run of the test binary: go/build reads GOPATH from the environment and
\* flag.Parse sets the flag from the command line (go test, or go test
\* -update_golden). No closure of an earlier run is left; the golden files
\* outlive the run.
StartProcess(flag) ==
  /\ GOPATH' = environ
  /\ updateGolden' = flag
  /\ halted' = FALSE
  /\ last' = NoCall
  /\ restoreFuncs' = <<>>
  /\ UNCHANGED <<fs, lastWrite, environ>>

Init ==
  /\ environ \in { JoinList(l) : l \in RootLists }
  /\ GOPATH = environ
  /\ restoreFuncs = <<>>
  /\ updateGolden \in BOOLEAN
  /\ fs \in InitialFilesystems
  /\ halted = FALSE
  /\ last = NoCall
  /\ lastWrite = NoCall

Next ==
  \/ \E actual \in Texts, goldenFile \in LogicalPaths : Compare(actual, goldenFile)
  \/ \E relPath \in LogicalPaths : CallGetFullPathForRead(relPath)
  \/ \E relPath \in LogicalPaths : CallGetFullPathForWrite(relPath)
  \/ \E tmpdir \in TmpDirs : enableUpdateGoldenForTest(tmpdir)
  \/ \E i \in 1..MaxOverrides : restoreFunc(i)
  \/ \E flag \in BOOLEAN : StartProcess(flag)

Spec == Init /\ [][Next]_vars

----------------------------------------------------------------------------
(* What the properties below read off the last call. A resolver call and a  *)
(* read-mode Compare leave the filesystem as it was, so after either the    *)
(* current fs is the one the call saw.                                      *)

\* The roots the last call ran under, and the candidate of the i-th.
Roots == SplitList(last.GOPATH)
RootIndexes == 1..Len(Roots)
CandidateAt(i) == Candidate(Roots[i], last.relPath)

\* The roots whose candidate exists, and those whose candidate's directory
\* exists. To exist is to be accepted by os.Stat, the only test the package
\* makes: it does not tell a file from a directory.
RootsWithFile == { i \in RootIndexes : Stat(CandidateAt(i)) = "nil" }
RootsWithDir == { i \in RootIndexes : Stat(DirOf(CandidateAt(i))) = "nil" }

\* list holds exactly the strings of set, each once, in ascending order.
ListsSorted(list, set) ==
  /\ { list[i] : i \in 1..Len(list) } = set
  /\ \A i \in 1..Len(list) - 1 : StrLess(list[i], list[i + 1])

----------------------------------------------------------------------------
\* C4: getFullPathForRead on a non-empty root list of which some candidate
\* exists returns, without error, the candidate of the first root in list
\* order whose candidate exists, also when several roots hold the file.
C4_ReadReturnsFirstExisting ==
  (last.op = "getFullPathForRead" /\ RootsWithFile # {}) =>
     /\ last.err = NoError
     /\ last.fullPath = CandidateAt(SetMin(RootsWithFile))

\* A read resolved while two roots held different files at the path, the
\* first of them being the one returned.
C4_Witness ==
  /\ last.op = "getFullPathForRead"
  /\ Cardinality({ CandidateAt(i) : i \in RootsWithFile }) > 1
  /\ last.fullPath = CandidateAt(1)
  /\ last.fullPath # CandidateAt(SetMax(RootsWithFile))

----------------------------------------------------------------------------
\* C5 as stated, for a root list of pairwise different entries: whenever two
\* or more roots of the list hold an existing regular file at the path,
\* getFullPathForWrite fails with the multiple-files error, no path, and the
\* existing candidates listed once each in ascending order.
C5_AsStated ==
  (last.op = "getFullPathForWrite"
     /\ (\A i, j \in RootIndexes : i # j => Roots[i] # Roots[j])
     /\ (\A i \in RootsWithFile : fs[CandidateAt(i)].kind = "file")
     /\ Cardinality(RootsWithFile) >= 2) =>
     /\ last.err.kind = MultipleFiles
     /\ last.fullPath = <<>>
     /\ ListsSorted(last.err.paths, { CandidateAt(i) : i \in RootsWithFile })

\* C5 amended: whenever the roots lead to two or more different existing
\* candidate paths, getFullPathForWrite fails with the multiple-files error
\* naming the relative path, returns no path, and lists every existing
\* candidate once, in ascending order whatever the order of the roots.
C5_AmbiguousExistingFiles ==
  (last.op = "getFullPathForWrite"
     /\ Cardinality({ CandidateAt(i) : i \in RootsWithFile }) >= 2) =>
     /\ last.err.kind = MultipleFiles
     /\ last.err.relPath = last.relPath
     /\ last.fullPath = <<>>
     /\ ListsSorted(last.err.paths, { CandidateAt(i) : i \in RootsWithFile })

\* The error raised for roots given in descending order of their candidates.
C5_Witness ==
  /\ last.op = "getFullPathForWrite"
  /\ last.err.kind = MultipleFiles
  /\ Len(last.err.paths) = 2
  /\ StrLess(CandidateAt(2), CandidateAt(1))

----------------------------------------------------------------------------
\* C6: when exactly one root of the list holds an existing file at the path,
\* getFullPathForRead and getFullPathForWrite both succeed and return that
\* root's candidate, whichever roots have the path's directory.
C6_SingleExistingFile ==
  (last.op \in {"getFullPathForRead", "getFullPathForWrite"}
     /\ Cardinality(RootsWithFile) = 1) =>
     /\ last.err = NoError
     /\ \A i \in RootsWithFile : last.fullPath = CandidateAt(i)

\* A write resolved to the file of the second root while the first root had
\* the directory as well.
C6_Witness ==
  /\ last.op = "getFullPathForWrite"
  /\ RootsWithFile = {2}
  /\ RootsWithDir = {1, 2}
  /\ last.fullPath = CandidateAt(2)

----------------------------------------------------------------------------
\* C7: with a single root, getFullPathForWrite returns that root's candidate
\* and no error, whatever exists in the filesystem.
C7_SingleRootWrite ==
  (last.op = "getFullPathForWrite" /\ Len(Roots) = 1) =>
     /\ last.err = NoError
     /\ last.fullPath = CandidateAt(1)

\* The single root's candidate returned though neither the file nor its
\* directory exists.
C7_Witness ==
  /\ last.op = "getFullPathForWrite"
  /\ Len(Roots) = 1
  /\ RootsWithDir = {}
  /\ last.fullPath = CandidateAt(1)

----------------------------------------------------------------------------
\* C8 as stated: on a non-empty root list none of whose candidates exists,
\* getFullPathForRead fails with the not-found error naming the relative
\* path, whatever the existence checks reported.
C8_AsStated ==
  (last.op = "getFullPathForRead" /\ Len(Roots) > 0 /\ RootsWithFile = {}) =>
     /\ last.fullPath = <<>>
     /\ last.err = Errorf("file not found in GOPATH", last.relPath, <<>>)

\* C8 amended: on a non-empty root list none of whose candidates exists,
\* getFullPathForRead returns no path and fails: with the not-found error
\* naming the relative path when the check of the last root reported that the
\* file does not exist, and with the error of that check otherwise.
C8_ReadFailsWhenNoneExists ==
  (last.op = "getFullPathForRead" /\ Len(Roots) > 0 /\ RootsWithFile = {}) =>
     LET lastErr == Stat(CandidateAt(Len(Roots)))
     IN /\ last.fullPath = <<>>
        /\ last.err # NoError
        /\ lastErr = "ENOENT" =>
             last.err = Errorf("file not found in GOPATH", last.relPath, <<>>)
        /\ lastErr # "ENOENT" =>
             last.err = PathError(lastErr, CandidateAt(Len(Roots)))

\* Both outcomes of a failed read over two roots: here the check of the first
\* root failed otherwise and that of the last with "does not exist".
C8_Witness ==
  /\ last.op = "getFullPathForRead"
  /\ Len(Roots) = 2
  /\ Stat(CandidateAt(1)) = "ENOTDIR"
  /\ Stat(CandidateAt(2)) = "ENOENT"
  /\ last.err.kind = "file not found in GOPATH"

----------------------------------------------------------------------------
----------------------------------------------------------------------------
(* Compare. A step from a running process that leaves a Compare record is a *)
(* call of Compare; its arguments are those of the record it leaves.        *)

CompareStep == ~halted /\ last'.op = "Compare"

Instruction ==
  <<"Actual data differs from golden data; run ", "go test -update_golden", " to update">>

----------------------------------------------------------------------------
\* C1: after a Compare(V, P) that wrote the golden file and returned, every
\* read-mode Compare(V, P) under the same GOPATH, up to the next write,
\* returns the empty string, and reads the very file that was written.
C1_RoundTrip ==
  (last.op = "Compare" /\ ~last.update /\ lastWrite.op = "Compare"
     /\ last.actual = lastWrite.actual /\ last.relPath = lastWrite.relPath
     /\ last.GOPATH = lastWrite.GOPATH) =>
     /\ last.outcome = "returned"
     /\ last.ret = Match
     /\ last.fullPath = lastWrite.fullPath

\* A text without a final newline written to the second of two roots and
\* then read back as a match.
C1_Witness ==
  /\ last.op = "Compare" /\ ~last.update /\ lastWrite.op = "Compare"
  /\ last.actual = lastWrite.actual /\ last.relPath = lastWrite.relPath
  /\ last.GOPATH = lastWrite.GOPATH
  /\ last.actual = <<"x">>
  /\ Len(Roots) = 2 /\ CandidateAt(1) # CandidateAt(2)
  /\ last.fullPath = CandidateAt(2)
  /\ last.ret = Match

----------------------------------------------------------------------------
\* C2: a read-mode Compare that returns, returns the empty string exactly
\* when the contents of the resolved file equal actual byte for byte, and
\* otherwise the instruction line followed by the diff of the two.
C2_ReadOutcome ==
  (last.op = "Compare" /\ ~last.update /\ last.outcome = "returned") =>
     LET expected == fs[last.fullPath].data
     IN /\ fs[last.fullPath].kind = "file"
        /\ last.ret = Match <=> expected = last.actual
        /\ expected # last.actual =>
             /\ last.ret # Match
             /\ Len(last.ret) = 2
             /\ last.ret[1] = Instruction
             /\ last.ret[2].A = expected
             /\ last.ret[2].B = last.actual
             /\ last.ret[2].FromFile = last.relPath

\* A report returned for contents that differ from actual in a final newline
\* only.
C2_Witness ==
  /\ last.op = "Compare" /\ ~last.update /\ last.outcome = "returned"
  /\ last.actual = <<"x">>
  /\ fs[last.fullPath].data = <<"x", "\n">>
  /\ last.ret # Match

----------------------------------------------------------------------------
\* C3 as stated: a write-mode Compare whose path resolution succeeds
\* overwrites the resolved file with actual, changes no other file, and
\* returns the empty string.
C3_AsStated ==
  [][ (CompareStep /\ updateGolden
         /\ getFullPathForWrite(last'.relPath).err = NoError) =>
        /\ fs' = [fs EXCEPT ![getFullPathForWrite(last'.relPath).path] =
                              FileNode(last'.actual)]
        /\ last'.outcome = "returned"
        /\ last'.ret = Match ]_vars

\* C3 amended: a write-mode Compare whose path resolution succeeds, and whose
\* write of the resolved file succeeds, overwrites that file with actual
\* verbatim, changes no other file and returns the empty string without a
\* comparison; when the write fails (the file's directory is missing or is
\* no directory, or the path is a directory) it halts the process, returns
\* nothing and changes no file.
C3_WriteOverwrites ==
  [][ (CompareStep /\ updateGolden
         /\ getFullPathForWrite(last'.relPath).err = NoError) =>
        LET fullPath == getFullPathForWrite(last'.relPath).path
            writable == /\ Stat(DirOf(fullPath)) = "nil"
                        /\ fs[DirOf(fullPath)].kind = "dir"
                        /\ fs[fullPath].kind # "dir"
        IN IF writable
             THEN /\ fs' = [fs EXCEPT ![fullPath] = FileNode(last'.actual)]
                  /\ last'.outcome = "returned"
                  /\ last'.ret = Match
                  /\ ~halted'
             ELSE /\ fs' = fs
                  /\ last'.outcome = "fatal"
                  /\ last'.ret # Match
                  /\ halted' ]_vars

\* A write of "x" that returned, with the resolved file now holding "x" and
\* another file still holding "x\n".
C3_Witness ==
  /\ last.op = "Compare" /\ last.update /\ last.outcome = "returned"
  /\ last.ret = Match
  /\ last.actual = <<"x">>
  /\ fs[last.fullPath] = FileNode(<<"x">>)
  /\ \E p \in FilePaths \ {last.fullPath} : fs[p] = FileNode(<<"x", "\n">>)

----------------------------------------------------------------------------
\* C10: a Compare whose path resolution fails (GOPATH empty, the file not
\* found for reading, ambiguous or missing candidates for writing), or whose
\* golden file cannot be read, halts the process and returns nothing, the
\* empty string in particular; and it changes no file.
C10_FatalNotFolded ==
  [][ CompareStep =>
        LET rel == last'.relPath
            failed ==
              IF updateGolden THEN getFullPathForWrite(rel).err # NoError
              ELSE \/ getFullPathForRead(rel).err # NoError
                   \/ ReadFile(getFullPathForRead(rel).path).err # "nil"
        IN failed => /\ halted'
                     /\ last'.outcome = "fatal"
                     /\ last'.ret # Match
                     /\ fs' = fs ]_vars

\* A process halted by a write-mode Compare that found two suitable
\* directories.
C10_Witness ==
  /\ halted
  /\ last.op = "Compare" /\ last.update
  /\ last.err.kind = MultipleDirs
  /\ last.outcome = "fatal"

----------------------------------------------------------------------------
\* C11: Compare in either mode, and the two path resolvers, leave the
\* update-mode toggle and GOPATH as they were. enableUpdateGoldenForTest
\* captures the toggle and GOPATH of the moment before it in the restore
\* function it returns, nothing alters what a restore function has captured,
\* and a call of a restore function sets the toggle and GOPATH to exactly
\* what it captured, whatever Compare calls ran in between and whether the
\* toggle was enabled or disabled before.
C11_ScopedOverride ==
  [][ /\ (~halted /\ last'.op \in {"Compare", "getFullPathForRead",
                                    "getFullPathForWrite"}) =>
           /\ updateGolden' = updateGolden
           /\ GOPATH' = GOPATH
           /\ restoreFuncs' = restoreFuncs
      /\ (~halted /\ last'.op = "enableUpdateGoldenForTest") =>
           /\ Len(restoreFuncs') = Len(restoreFuncs) + 1
           /\ SubSeq(restoreFuncs', 1, Len(restoreFuncs)) = restoreFuncs
           /\ restoreFuncs'[Len(restoreFuncs')].originalGoPath = GOPATH
           /\ restoreFuncs'[Len(restoreFuncs')].originalUpdateGolden = updateGolden
      /\ (~halted /\ last'.op = "restoreFunc") =>
           \E i \in DOMAIN restoreFuncs :
              /\ GOPATH' = restoreFuncs[i].originalGoPath
              /\ updateGolden' = restoreFuncs[i].originalUpdateGolden
              /\ restoreFuncs' = Without(restoreFuncs, i) ]_vars

\* A restore function has put back an enabled toggle and a GOPATH other than
\* the overriding one, after a Compare wrote a golden file under the override.
C11_Witness ==
  /\ last.op = "restoreFunc"
  /\ updateGolden
  /\ restoreFuncs = <<>>
  /\ lastWrite.op = "Compare"
  /\ lastWrite.GOPATH \in TmpDirs
  /\ lastWrite.GOPATH # GOPATH

====
